---- MODULE Spec2Model ----
(***************************************************************************)
(* Model of streamlit_app.py: a Streamlit script that resolves a DuckDB     *)
(* file, runs eight SQL queries against one transactions table and renders  *)
(* each result as a chart, a metric and a table.                            *)
(*                                                                          *)
(* A table is a sequence of rows [account, type, date, credit].  Accounts   *)
(* are numbered, a date is a day number of a DATE column, credit is a       *)
(* non-negative integer (no NULLs).  A dataframe is its column names and a  *)
(* sequence of records.  A DOUBLE produced by a division is kept as the     *)
(* exact fraction <<num, den>>.  Where SQL leaves the order of tied rows    *)
(* open, every order is a possible result of an execution.                  *)
(***************************************************************************)
EXTENDS Integers, Sequences, FiniteSets, TLC

\* ---------------------------------------------------------------- bounds
\* Accounts are numbered 1..NumAccounts; each specification draws its table
\* from the tables of at most ...Rows rows; the script runs MaxRuns times.
NumAccounts == 2
MaxCredit == 2
FunnelRows == 3
RevRows == 4
AttachRows == 4
BasketRows == 4
TtsRows == 4
ScriptRows == 2
MaxRuns == 2

\* The dates and credits the tables of the funnel, time-to-training and other
\* specifications take their values from.
FunnelDates == <<1, 2>>
FunnelCredits == <<0, 1>>
TtsDates == <<1, 2, 3>>
OneDate == <<1>>
UnitCredit == <<1>>
CreditsUpTo(n) == [i \in 1..(n + 1) |-> i - 1]

\* ------------------------------------------------------- sidebar constants
MinTopPairs == 5
MaxTopPairs == 50
DefaultTopPairs == 15
MinTopAccounts == 10
MaxTopAccounts == 200
DefaultTopAccounts == 30

\* ------------------------------------------------------------ type labels
Licenses == "FME Licenses"
Subscription == "FME Subscription"
Consulting == "FME Consulting"
Training == "FME Training"
Esri == "Esri Consulting"

\* The type strings in the binary string order DuckDB's < uses on VARCHAR.
TypeOrder == <<Esri, Consulting, Licenses, Subscription, Training>>

TypeRank(t) == CHOOSE i \in 1..Len(TypeOrder) : TypeOrder[i] = t

\* a1.type < a2.type
TypeLt(t1, t2) == TypeRank(t1) < TypeRank(t2)

\* type IN ('FME Licenses', 'FME Subscription')
IsCore(t) == t \in {Licenses, Subscription}

\* ------------------------------------------------------------ generic helpers
Range(s) == {s[i] : i \in 1..Len(s)}

SetMin(S) == CHOOSE x \in S : \A y \in S : x <= y

RECURSIVE SumOver(_, _)
\* Sum of f[x] over the finite set S.
SumOver(f, S) ==
  IF S = {} THEN 0
  ELSE LET x == CHOOSE y \in S : TRUE IN f[x] + SumOver(f, S \ {x})

\* SUM(credit) over the rows of tbl whose index is in I.
SumCredit(tbl, I) == SumOver([i \in I |-> tbl[i].credit], I)

RECURSIVE SeqOfSetBy(_, _)
\* The elements of the set of integers S as an ascending sequence.
SeqOfSetBy(S, dummy) ==
  IF S = {} THEN << >>
  ELSE LET x == SetMin(S) IN <<x>> \o SeqOfSetBy(S \ {x}, dummy)

AscSeq(S) == SeqOfSetBy(S, 0)

\* All orderings of the finite set S, as sequences without repetition.
Perms(S) ==
  {p \in [1..Cardinality(S) -> S] : \A i, j \in 1..Cardinality(S) : i # j => p[i] # p[j]}

\* ---------------------------------------------------------- input tables
\* Row kind k (from 0) over the accounts, the types, the dates and the credits
\* of the sequences types, dates and credits.
RowKind(k, types, dates, credits) ==
  LET k1 == k \div Len(credits)
      k2 == k1 \div Len(dates)
  IN [account |-> (k2 \div Len(types)) + 1,
      type |-> types[(k2 % Len(types)) + 1],
      date |-> dates[(k1 % Len(dates)) + 1],
      credit |-> credits[(k % Len(credits)) + 1]]

\* A table domain: the tables of at most maxRows rows over the accounts
\* 1..NumAccounts and the given types, dates and credits.
Domain(types, dates, credits, maxRows) ==
  [types |-> types, dates |-> dates, credits |-> credits, maxRows |-> maxRows]

\* tbl is a table of n rows of the domain.  Duplicate rows are allowed and the
\* queries do not depend on the order of the rows in the table, so there is one
\* table per multiset of rows, its rows in the order of their kinds; the
\* queries depend on the account numbers only through their order, so the
\* accounts of a table are 1..k for some k.
IsTableOf(tbl, dom, n) ==
  \E s \in [1..n -> 1..(NumAccounts * Len(dom.types) * Len(dom.dates) * Len(dom.credits))] :
    /\ \A i \in 1..(n - 1) : s[i] <= s[i + 1]
    /\ tbl = [i \in 1..n |-> RowKind(s[i] - 1, dom.types, dom.dates, dom.credits)]
    /\ \A i \in 1..n : \A a \in 1..(tbl[i].account - 1) : \E j \in 1..n : tbl[j].account = a

Accounts == 1..NumAccounts

AccountsOf(tbl) == {tbl[i].account : i \in 1..Len(tbl)}

\* ------------------------------------------------------------ dataframes
\* A dataframe: its column names and its rows in order.
Frame(columns, rows) == [columns |-> columns, rows |-> rows]

\* The value pandas holds for a NULL or NaN DOUBLE: no fraction has divisor 0.
NaN == <<0, 0>>

\* num / den as an exact fraction.
Frac(num, den) == <<num, den>>

\* ------------------------------------------------------ SQL: the funnels
\* WITH FirstInitialPurchase AS (SELECT account, MIN(date) ... GROUP BY account)
FirstInitialPurchase(tbl) ==
  LET core == {i \in 1..Len(tbl) : IsCore(tbl[i].type)}
  IN [a \in {tbl[i].account : i \in core} |->
        SetMin({tbl[i].date : i \in {j \in core : tbl[j].account = a}})]

\* InitialSpend AS (SELECT account, SUM(credit) ... GROUP BY account)
InitialSpend(tbl) ==
  LET core == {i \in 1..Len(tbl) : IsCore(tbl[i].type)}
  IN [a \in {tbl[i].account : i \in core} |->
        SumCredit(tbl, {j \in core : tbl[j].account = a})]

\* A plausible slip: ad.date >= fip.first_initial_date.
FollowUpSpendNotStrict(tbl, F) ==
  LET fip == FirstInitialPurchase(tbl)
      joined == {i \in 1..Len(tbl) : /\ tbl[i].account \in DOMAIN fip
                                     /\ tbl[i].type = F
                                     /\ tbl[i].date >= fip[tbl[i].account]}
  IN [a \in {tbl[i].account : i \in joined} |->
        SumCredit(tbl, {j \in joined : tbl[j].account = a})]

\* FollowUp...Spend AS (SELECT fip.account, SUM(ad.credit) FROM T AS ad
\*   JOIN FirstInitialPurchase AS fip ON ad.account = fip.account
\*   WHERE ad.type = F AND ad.date > fip.first_initial_date GROUP BY fip.account)
FollowUpSpend(tbl, F) ==
  LET fip == FirstInitialPurchase(tbl)
      joined == {i \in 1..Len(tbl) : /\ tbl[i].account \in DOMAIN fip
                                     /\ tbl[i].type = F
                                     /\ tbl[i].date > fip[tbl[i].account]}
  IN [a \in {tbl[i].account : i \in joined} |->
        SumCredit(tbl, {j \in joined : tbl[j].account = a})]

\* The follow-up type and the spend column of each funnel query.
FollowUpType(q) ==
  CASE q = "consulting" -> Consulting
    [] q = "training" -> Training
    [] q = "esri" -> Esri

SpendColumn(q) ==
  CASE q = "consulting" -> "total_fme_consulting_spend"
    [] q = "training" -> "total_fme_training_spend"
    [] q = "esri" -> "total_esri_consulting_spend"

\* SELECT i.account, i.total_license_subscription_spend, f.<spend>
\* FROM InitialSpend AS i JOIN FollowUp AS f ON i.account = f.account
\* ORDER BY i.account
FunnelQuery(tbl, q) ==
  LET ini == InitialSpend(tbl)
      fol == FollowUpSpend(tbl, FollowUpType(q))
      accs == AscSeq(DOMAIN ini \cap DOMAIN fol)
      cols == <<"account", "total_license_subscription_spend", SpendColumn(q)>>
  IN Frame(cols,
       [k \in 1..Len(accs) |->
          [c \in Range(cols) |->
             CASE c = "account" -> accs[k]
               [] c = "total_license_subscription_spend" -> ini[accs[k]]
               [] OTHER -> fol[accs[k]]]])

\* ------------------------------------------- SQL: revenue concentration
\* CustomerTotalRevenue AS (SELECT account, SUM(credit) ... GROUP BY account)
CustomerTotalRevenue(tbl) ==
  [a \in AccountsOf(tbl) |-> SumCredit(tbl, {i \in 1..Len(tbl) : tbl[i].account = a})]

\* A plausible slip: the window ordered ascending, the output descending.
RunningTotalAscending(tbl) ==
  LET ctr == CustomerTotalRevenue(tbl)
  IN [a \in DOMAIN ctr |-> SumOver(ctr, {b \in DOMAIN ctr : ctr[b] <= ctr[a]})]

\* SUM(total_revenue) OVER (ORDER BY total_revenue DESC): the default frame is
\* RANGE BETWEEN UNBOUNDED PRECEDING AND CURRENT ROW, which takes in the peers
\* of the current row.
RunningTotal(tbl) ==
  LET ctr == CustomerTotalRevenue(tbl)
  IN [a \in DOMAIN ctr |-> SumOver(ctr, {b \in DOMAIN ctr : ctr[b] >= ctr[a]})]

\* (SELECT SUM(total_revenue) FROM CustomerTotalRevenue)
GrandTotal(tbl) ==
  LET ctr == CustomerTotalRevenue(tbl) IN SumOver(ctr, DOMAIN ctr)

\* ORDER BY total_revenue DESC names no second key: every ordering of the
\* accounts with total_revenue non-increasing is a result the engine may return.
RevconOrders(tbl) ==
  LET ctr == CustomerTotalRevenue(tbl)
  IN {p \in Perms(DOMAIN ctr) : \A i \in 1..(Len(p) - 1) : ctr[p[i]] >= ctr[p[i + 1]]}

RevconColumns ==
  <<"account", "total_revenue", "cumulative_revenue", "cumulative_percentage">>

\* cumulative_revenue / grand total * 100; a zero divisor gives NULL or NaN.
CumulativePercentage(cum, grand) ==
  IF grand = 0 THEN NaN ELSE Frac(cum * 100, grand)

\* The revcon result in the order p.
RevconQuery(tbl, p) ==
  LET ctr == CustomerTotalRevenue(tbl)
      run == RunningTotal(tbl)
      grand == GrandTotal(tbl)
  IN Frame(RevconColumns,
       [k \in 1..Len(p) |->
          [account |-> p[k],
           total_revenue |-> ctr[p[k]],
           cumulative_revenue |-> run[p[k]],
           cumulative_percentage |-> CumulativePercentage(run[p[k]], grand)]])

\* ------------------------------------------------- SQL: training attach rate
\* CoreProductCustomers AS (SELECT DISTINCT account ... WHERE type IN (...))
CoreProductCustomers(tbl) ==
  {tbl[i].account : i \in {j \in 1..Len(tbl) : IsCore(tbl[j].type)}}

\* AttachServiceCustomers AS (SELECT DISTINCT account ... WHERE type = 'FME Training')
AttachServiceCustomers(tbl) ==
  {tbl[i].account : i \in {j \in 1..Len(tbl) : tbl[j].type = Training}}

\* A plausible slip: the numerator counts every Training account.
AttachNumeratorUnfiltered(tbl) == Cardinality(AttachServiceCustomers(tbl))

\* SELECT COUNT(*) FROM AttachServiceCustomers
\* WHERE account IN (SELECT account FROM CoreProductCustomers)
AttachNumerator(tbl) ==
  Cardinality({a \in AttachServiceCustomers(tbl) : a \in CoreProductCustomers(tbl)})

\* numerator * 100.0 / (SELECT COUNT(*) FROM CoreProductCustomers): one row,
\* NULL or NaN when the divisor is zero.
AttachQuery(tbl) ==
  LET den == Cardinality(CoreProductCustomers(tbl))
  IN Frame(<<"training_attach_rate_percentage">>,
       <<[training_attach_rate_percentage |->
            IF den = 0 THEN NaN ELSE Frac(AttachNumerator(tbl) * 100, den)]>>)

\* ------------------------------------------------------ SQL: service basket
\* A plausible slip: a1.type <> a2.type.
BasketJoinUnordered(tbl) ==
  {ij \in (1..Len(tbl)) \X (1..Len(tbl)) :
     /\ tbl[ij[1]].account = tbl[ij[2]].account
     /\ tbl[ij[1]].type # tbl[ij[2]].type}

\* FROM T a1 JOIN T a2 ON a1.account = a2.account AND a1.type < a2.type
BasketJoin(tbl) ==
  {ij \in (1..Len(tbl)) \X (1..Len(tbl)) :
     /\ tbl[ij[1]].account = tbl[ij[2]].account
     /\ TypeLt(tbl[ij[1]].type, tbl[ij[2]].type)}

\* GROUP BY service_1, service_2 with COUNT(DISTINCT a1.account)
BasketGroups(tbl) ==
  LET joined == BasketJoin(tbl)
      groups == {<<tbl[ij[1]].type, tbl[ij[2]].type>> : ij \in joined}
  IN [g \in groups |->
        Cardinality({tbl[ij[1]].account :
                       ij \in {x \in joined : <<tbl[x[1]].type, tbl[x[2]].type>> = g}})]

\* ORDER BY number_of_customers DESC names no second key.
BasketOrders(tbl) ==
  LET cnt == BasketGroups(tbl)
  IN {p \in Perms(DOMAIN cnt) : \A i \in 1..(Len(p) - 1) : cnt[p[i]] >= cnt[p[i + 1]]}

BasketColumns == <<"service_1", "service_2", "number_of_customers">>

\* The basket result in the order p.
BasketQuery(tbl, p) ==
  LET cnt == BasketGroups(tbl)
  IN Frame(BasketColumns,
       [k \in 1..Len(p) |->
          [service_1 |-> p[k][1], service_2 |-> p[k][2], number_of_customers |-> cnt[p[k]]]])

\* ---------------------------------------------------- SQL: time to training
\* FirstPurchase AS (SELECT account, MIN(date) AS first_date ... GROUP BY account)
FirstPurchase(tbl) ==
  LET core == {i \in 1..Len(tbl) : IsCore(tbl[i].type)}
  IN [a \in {tbl[i].account : i \in core} |->
        SetMin({tbl[i].date : i \in {j \in core : tbl[j].account = a}})]

\* A plausible slip: the date filter left out of the WHERE clause.
FirstFollowUpAnyDate(tbl) ==
  LET fp == FirstPurchase(tbl)
      joined == {i \in 1..Len(tbl) : /\ tbl[i].account \in DOMAIN fp
                                     /\ tbl[i].type = Training}
  IN [a \in {tbl[i].account : i \in joined} |->
        SetMin({tbl[i].date : i \in {j \in joined : tbl[j].account = a}})]

\* FirstFollowUp AS (SELECT t.account, MIN(t.date) FROM T t JOIN FirstPurchase fp
\*   ON t.account = fp.account WHERE t.type = 'FME Training' AND t.date > fp.first_date
\*   GROUP BY t.account)
FirstFollowUp(tbl) ==
  LET fp == FirstPurchase(tbl)
      joined == {i \in 1..Len(tbl) : /\ tbl[i].account \in DOMAIN fp
                                     /\ tbl[i].type = Training
                                     /\ tbl[i].date > fp[tbl[i].account]}
  IN [a \in {tbl[i].account : i \in joined} |->
        SetMin({tbl[i].date : i \in {j \in joined : tbl[j].account = a}})]

\* SELECT AVG(first_training_date - first_date) FROM FirstPurchase fp
\* JOIN FirstFollowUp ff ON fp.account = ff.account: one row; DATE - DATE is a
\* number of days, AVG of no rows is NULL.
TimeToSvcQuery(tbl) ==
  LET fp == FirstPurchase(tbl)
      ff == FirstFollowUp(tbl)
      both == DOMAIN fp \cap DOMAIN ff
      diff == [a \in both |-> ff[a] - fp[a]]
  IN Frame(<<"avg_days_to_training">>,
       <<[avg_days_to_training |->
            IF both = {} THEN NaN ELSE Frac(SumOver(diff, both), Cardinality(both))]>>)

\* ------------------------------------------------------- SQL: monthly trends
\* strftime(date, '%Y-%m') of day number d of 2023.
SalesMonth(d) == IF d <= 31 THEN "2023-01" ELSE "2023-02"

MonthRank(m) == IF m = "2023-01" THEN 1 ELSE 2

\* SELECT sales_month, type, SUM(credit) ... GROUP BY sales_month, type
\* ORDER BY sales_month, type
TrendsQuery(tbl) ==
  LET groups == {<<SalesMonth(tbl[i].date), tbl[i].type>> : i \in 1..Len(tbl)}
      key(g) == MonthRank(g[1]) * 8 + TypeRank(g[2])
      keys == AscSeq({key(g) : g \in groups})
      group(k) == CHOOSE g \in groups : key(g) = keys[k]
  IN Frame(<<"sales_month", "type", "monthly_revenue">>,
       [k \in 1..Len(keys) |->
          [sales_month |-> group(k)[1],
           type |-> group(k)[2],
           monthly_revenue |->
             SumCredit(tbl, {i \in 1..Len(tbl) :
                               <<SalesMonth(tbl[i].date), tbl[i].type>> = group(k)})]])

\* --------------------------------------------------------------- the script
VARIABLES
  table,            \* the rows of table T in the database file
  uploaded,         \* st.file_uploader holds a file
  db_path_input,    \* the path typed in the sidebar, "" when none
  fileState,        \* the file at the path: "missing", "notdb", "ok"
  top_n_pairs,      \* sidebar: Top N service pairs
  top_n_accounts,   \* sidebar: Top N accounts
  run,              \* number of the current script run
  db_path,          \* the resolved path
  pc,               \* 0: source resolution, k in 1..8: widget k is next, 9: end
  status,           \* "running", "stopped" (st.stop), "failed" (exception), "done"
  df,               \* the dataframe last passed to st.dataframe
  chart,            \* the rows last passed to a chart
  metric,           \* the value last passed to st.metric
  headed,           \* the widgets of this run whose st.subheader was reached
  rendered,         \* the widgets of this run whose st.dataframe was reached
  msgs,             \* the messages shown in this run
  calls,            \* the queries run_sql was called with in this run
  executed,         \* the queries con.execute ran in this run
  conns,            \* st.cache_resource: the paths with an open connection
  cache             \* st.cache_data: <<path, query>> -> dataframe

vars ==
  <<table, uploaded, db_path_input, fileState, top_n_pairs, top_n_accounts, run, db_path,
    pc, status, df, chart, metric, headed, rendered, msgs, calls, executed, conns, cache>>

inputs == <<table, uploaded, db_path_input, fileState, top_n_pairs, top_n_accounts>>

\* What st.metric shows: nothing yet, the em dash of a None value, or a number
\* with two decimals.
NoMetric == [kind |-> "none", hundredths |-> 0, unit |-> ""]
NoData == [kind |-> "no data", hundredths |-> 0, unit |-> ""]
Metric(h, u) == [kind |-> "value", hundredths |-> h, unit |-> u]

\* What a chart was given: nothing, or rows.
NoChart == [drawn |-> FALSE, rows |-> << >>]
Chart(rows) == [drawn |-> TRUE, rows |-> rows]

EmptyFrame == [columns |-> << >>, rows |-> << >>]
NoPath == <<"none", 0>>
TypedPath == <<"typed", 0>>
TempPath(n) == <<"tmp", n>>

\* The query of each widget, in script order.
QueryOf ==
  <<"consulting", "training", "esri", "revcon", "attach", "basket", "timetosvc", "trends">>

NumWidgets == 8

\* The dataframes con.execute(sql).df() may return for query q.
QueryResults(tbl, q) ==
  CASE q \in {"consulting", "training", "esri"} -> {FunnelQuery(tbl, q)}
    [] q = "revcon" -> {RevconQuery(tbl, p) : p \in RevconOrders(tbl)}
    [] q = "attach" -> {AttachQuery(tbl)}
    [] q = "basket" -> {BasketQuery(tbl, p) : p \in BasketOrders(tbl)}
    [] q = "timetosvc" -> {TimeToSvcQuery(tbl)}
    [] q = "trends" -> {TrendsQuery(tbl)}

\* ---------------------------------------------------------- pandas helpers
RECURSIVE SortValuesDesc(_, _)
\* df.sort_values(col, ascending=False): ties keep their order.
SortValuesDesc(rows, col) ==
  IF Len(rows) = 0 THEN << >>
  ELSE LET top == CHOOSE i \in 1..Len(rows) :
                    /\ \A j \in 1..Len(rows) : rows[j][col] <= rows[i][col]
                    /\ \A j \in 1..(i - 1) : rows[j][col] < rows[i][col]
           rest == [j \in 1..(Len(rows) - 1) |-> IF j < top THEN rows[j] ELSE rows[j + 1]]
       IN <<rows[top]>> \o SortValuesDesc(rest, col)

\* df.head(n)
HeadRows(rows, n) == IF Len(rows) <= n THEN rows ELSE SubSeq(rows, 1, n)

\* f"{v:.2f}" of the fraction v, as a number of hundredths (ties to even).
Round2(v) ==
  LET n == v[1] * 100
      f == n \div v[2]
      r == n % v[2]
  IN IF 2 * r > v[2] THEN f + 1
     ELSE IF 2 * r = v[2] THEN f + (f % 2)
     ELSE f

\* ------------------------------------------------------ the widgets' views
\* Widgets 1-3: df_top = df.sort_values(spend, ascending=False).head(top_n_accounts)
\* goes to the bar chart; df itself goes to st.dataframe.
FunnelChart(frame, q, n) ==
  IF Len(frame.rows) = 0 THEN NoChart
  ELSE Chart(HeadRows(SortValuesDesc(frame.rows, SpendColumn(q)), n))

\* Widget 4: df_plot is df with a rank column and a (0, 0) row in front.
RevconChart(frame) ==
  IF Len(frame.rows) = 0 THEN NoChart
  ELSE Chart(<<[rank |-> 0, account |-> "Start", cumulative_percentage |-> Frac(0, 1)]>> \o
             [k \in 1..Len(frame.rows) |->
                [rank |-> k, account |-> frame.rows[k].account,
                 cumulative_percentage |-> frame.rows[k].cumulative_percentage]])

\* A plausible slip: a missing value shown as zero.
AttachMetricZeroFilled(frame) ==
  LET x == frame.rows[1].training_attach_rate_percentage
  IN IF x = NaN THEN Metric(0, "%") ELSE Metric(Round2(x), "%")

\* Widget 5: val is None unless pd.notna(df.loc[0, ...]); f"{val:,.2f}%" or the dash.
AttachMetric(frame) ==
  LET x == frame.rows[1].training_attach_rate_percentage
  IN IF x = NaN THEN NoData ELSE Metric(Round2(x), "%")

\* Widget 6: df gets a pair column, is sorted and cut to top_n_pairs, and this
\* df goes to both the chart and st.dataframe.
BasketView(frame, n) ==
  IF Len(frame.rows) = 0 THEN frame
  ELSE LET withPair ==
             [k \in 1..Len(frame.rows) |->
                [service_1 |-> frame.rows[k].service_1,
                 service_2 |-> frame.rows[k].service_2,
                 number_of_customers |-> frame.rows[k].number_of_customers,
                 pair |-> <<frame.rows[k].service_1, " + ", frame.rows[k].service_2>>]]
       IN Frame(Append(frame.columns, "pair"),
                HeadRows(SortValuesDesc(withPair, "number_of_customers"), n))

\* A plausible slip: a missing value shown as zero.
AvgDaysMetricZeroFilled(frame) ==
  LET x == frame.rows[1].avg_days_to_training
  IN IF x = NaN THEN Metric(0, "") ELSE Metric(Round2(x), "")

\* Widget 7: days_val is None when pd.isna(val), else the number in str(val).
AvgDaysMetric(frame) ==
  LET x == frame.rows[1].avg_days_to_training
  IN IF x = NaN THEN NoData ELSE Metric(Round2(x), "")

\* The dataframe widget k passes to st.dataframe.
TableOf(k, frame) ==
  IF k = 6 THEN BasketView(frame, top_n_pairs) ELSE frame

\* The rows widget k passes to its chart, None when it draws none.
ChartOf(k, frame) ==
  CASE k \in {1, 2, 3} -> FunnelChart(frame, QueryOf[k], top_n_accounts)
    [] k = 4 -> RevconChart(frame)
    [] k = 6 -> IF Len(frame.rows) = 0 THEN NoChart
                ELSE Chart(BasketView(frame, top_n_pairs).rows)
    [] k = 8 -> IF Len(frame.rows) = 0 THEN NoChart ELSE Chart(frame.rows)
    [] OTHER -> NoChart

\* The value widget k passes to st.metric, NoMetric when it shows none.
MetricOf(k, frame) ==
  CASE k = 5 -> AttachMetric(frame)
    [] k = 7 -> AvgDaysMetric(frame)
    [] OTHER -> NoMetric

\* ------------------------------------------------------------------ run_sql
\* run_sql(path, sql) under st.cache_data, get_conn(path) under
\* st.cache_resource: a cached result is returned as it is; else the connection
\* is opened (an exception when the file is no database), the query runs (an
\* exception on a schema or engine error) and the result is cached.
RunSqlOutcomes(path, q) ==
  IF <<path, q>> \in DOMAIN cache
  THEN {[kind |-> "hit", frame |-> cache[<<path, q>>]]}
  ELSE IF path \notin conns /\ fileState # "ok"
  THEN {[kind |-> "connect_error", frame |-> EmptyFrame]}
  ELSE {[kind |-> "query_error", frame |-> EmptyFrame]} \cup
       {[kind |-> "miss", frame |-> f] : f \in QueryResults(table, q)}

\* ------------------------------------------------------------------ actions
\* A plausible slip: the existence check of the path left out.
ResolveSourceUnchecked ==
  /\ status = "running" /\ pc = 0
  /\ LET path == IF uploaded THEN TempPath(run)
                 ELSE IF db_path_input # "" THEN TypedPath
                 ELSE NoPath
     IN /\ db_path' = path
        /\ IF path = NoPath
           THEN /\ msgs' = msgs \cup {"info_begin"}
                /\ status' = "stopped"
                /\ pc' = pc
           ELSE /\ msgs' = msgs \cup {"success_using"}
                /\ status' = status
                /\ pc' = 1
  /\ UNCHANGED <<inputs, run, df, chart, metric, headed, rendered, calls, executed, conns, cache>>

\* Lines 22-60: db_path from the upload (a fresh temp file) or the typed
\* path; st.info and st.stop without a path, st.error and st.stop when the path
\* does not exist, else st.success.
ResolveSource ==
  /\ status = "running" /\ pc = 0
  /\ LET path == IF uploaded THEN TempPath(run)
                 ELSE IF db_path_input # "" THEN TypedPath
                 ELSE NoPath
         exists == uploaded \/ fileState # "missing"
     IN /\ db_path' = path
        /\ IF path = NoPath
           THEN /\ msgs' = msgs \cup {"info_begin"}
                /\ status' = "stopped"
                /\ pc' = pc
           ELSE IF ~exists
           THEN /\ msgs' = msgs \cup {"error_not_found"}
                /\ status' = "stopped"
                /\ pc' = pc
           ELSE /\ msgs' = msgs \cup {"success_using"}
                /\ status' = status
                /\ pc' = 1
  /\ UNCHANGED <<inputs, run, df, chart, metric, headed, rendered, calls, executed, conns, cache>>

\* Widget k: st.subheader, df = run_sql(db_path, SQL[q]), the chart or metric,
\* st.dataframe(df).  An exception of run_sql ends the script run.
Widget(k) ==
  /\ status = "running" /\ pc = k
  /\ headed' = headed \cup {k}
  /\ calls' = calls \cup {QueryOf[k]}
  /\ \E o \in RunSqlOutcomes(db_path, QueryOf[k]) :
       /\ conns' = IF o.kind \in {"miss", "query_error"} THEN conns \cup {db_path} ELSE conns
       /\ executed' = IF o.kind \in {"miss", "query_error"}
                      THEN executed \cup {QueryOf[k]} ELSE executed
       /\ IF o.kind \in {"connect_error", "query_error"}
          THEN /\ status' = "failed"
               /\ msgs' = msgs \cup {"exception"}
               /\ UNCHANGED <<pc, df, chart, metric, rendered, cache>>
          ELSE /\ cache' = [key \in DOMAIN cache \cup {<<db_path, QueryOf[k]>>} |->
                              IF key = <<db_path, QueryOf[k]>> THEN o.frame ELSE cache[key]]
               /\ df' = TableOf(k, o.frame)
               /\ chart' = ChartOf(k, o.frame)
               /\ metric' = MetricOf(k, o.frame)
               /\ rendered' = rendered \cup {k}
               /\ pc' = k + 1
               /\ status' = IF k = NumWidgets THEN "done" ELSE status
               /\ msgs' = msgs
  /\ UNCHANGED <<inputs, run, db_path>>

ConsultingWidget == Widget(1)
TrainingWidget == Widget(2)
EsriWidget == Widget(3)
RevconWidget == Widget(4)
AttachWidget == Widget(5)
BasketWidget == Widget(6)
TimeToSvcWidget == Widget(7)
TrendsWidget == Widget(8)

\* The sidebar settings tried: the least and the default number of pairs.
TopPairsChoices == {MinTopPairs, DefaultTopPairs}
TopAccountsChoices == {DefaultTopAccounts}

\* Streamlit runs the script again from the top on an interaction; the two
\* caches outlive the run, an upload is written to a new temp file.
Rerun ==
  /\ status \in {"stopped", "failed", "done"}
  /\ run < MaxRuns
  /\ run' = run + 1
  /\ top_n_pairs' \in TopPairsChoices
  /\ top_n_accounts' \in TopAccountsChoices
  /\ pc' = 0 /\ status' = "running"
  /\ db_path' = NoPath
  /\ df' = EmptyFrame /\ chart' = NoChart /\ metric' = NoMetric
  /\ headed' = {} /\ rendered' = {} /\ msgs' = {} /\ calls' = {} /\ executed' = {}
  /\ UNCHANGED <<table, uploaded, db_path_input, fileState, conns, cache>>

\* ------------------------------------------------------------ specifications
\* The sidebar without a usable database: nothing typed, a path to no file, a
\* file or an upload that is no database.
BadSources ==
  {[uploaded |-> FALSE, input |-> "", file |-> "missing"],
   [uploaded |-> FALSE, input |-> "typed", file |-> "missing"],
   [uploaded |-> FALSE, input |-> "typed", file |-> "notdb"],
   [uploaded |-> TRUE, input |-> "", file |-> "notdb"]}

GoodSources(uploads) == {[uploaded |-> u, input |-> IF u THEN "" ELSE "typed", file |-> "ok"] : u \in uploads}

\* The start of the first script run, the table drawn from the domain dom.
InitWith(dom, uploads, pairs, accounts) ==
  /\ \E src \in BadSources \cup GoodSources(uploads) :
       /\ uploaded = src.uploaded
       /\ db_path_input = src.input
       /\ fileState = src.file
       /\ IF src.file = "ok"
          THEN \E n \in 0..dom.maxRows : IsTableOf(table, dom, n)
          ELSE table = << >>
  /\ top_n_pairs \in pairs
  /\ top_n_accounts \in accounts
  /\ run = 1 /\ pc = 0 /\ status = "running"
  /\ db_path = NoPath
  /\ df = EmptyFrame /\ chart = NoChart /\ metric = NoMetric
  /\ headed = {} /\ rendered = {} /\ msgs = {} /\ calls = {} /\ executed = {}
  /\ conns = {} /\ cache = << >>

ScriptTables ==
  Domain(<<Licenses, Training>>, OneDate, UnitCredit, ScriptRows)

Init == InitWith(ScriptTables, {TRUE, FALSE}, TopPairsChoices, TopAccountsChoices)

Next ==
  \/ ResolveSource
  \/ ConsultingWidget
  \/ TrainingWidget
  \/ EsriWidget
  \/ RevconWidget
  \/ AttachWidget
  \/ BasketWidget
  \/ TimeToSvcWidget
  \/ TrendsWidget
  \/ Rerun

Spec == Init /\ [][Next]_vars

\* ----------------------------------------------------- the funnel queries
FunnelTables ==
  Domain(<<Licenses, Subscription, Consulting, Training, Esri>>,
         FunnelDates, FunnelCredits, FunnelRows)

InitFunnel == InitWith(FunnelTables, {FALSE}, {DefaultTopPairs}, {DefaultTopAccounts})

NextFunnel ==
  \/ ResolveSource
  \/ ConsultingWidget
  \/ TrainingWidget
  \/ EsriWidget

SpecFunnel == InitFunnel /\ [][NextFunnel]_vars

\* The results run_sql has returned for query q.
ResultsOf(q) == {cache[key] : key \in {x \in DOMAIN cache : x[2] = q}}

RECURSIVE CreditUpTo(_, _, _)
\* The credit of the rows 1..n of tbl whose index is in I, added row by row.
CreditUpTo(tbl, I, n) ==
  IF n = 0 THEN 0
  ELSE CreditUpTo(tbl, I, n - 1) + (IF n \in I THEN tbl[n].credit ELSE 0)

\* The rows of account a with a Licenses or Subscription type.
CoreRows(a) == {i \in 1..Len(table) : table[i].account = a /\ IsCore(table[i].type)}

\* d0: the earliest Licenses/Subscription date of account a.
EarliestCore(a) ==
  CHOOSE d \in {table[i].date : i \in CoreRows(a)} : \A i \in CoreRows(a) : d <= table[i].date

\* The rows of account a of type F dated strictly after d0.
LaterRows(a, F) ==
  {i \in 1..Len(table) :
     table[i].account = a /\ table[i].type = F /\ table[i].date > EarliestCore(a)}

Qualifies(a, F) == CoreRows(a) # {} /\ LaterRows(a, F) # {}

\* C1: in each funnel result an account has a row, and only one, if and only if
\* it has a Licenses/Subscription transaction and a transaction of the follow-up
\* type dated strictly after its earliest Licenses/Subscription date, and the
\* row's follow-up spend is the sum of credit over exactly those transactions.
C1_FunnelRows ==
  \A q \in {"consulting", "training", "esri"} : \A res \in ResultsOf(q) :
    /\ \A a \in Accounts :
         Cardinality({k \in 1..Len(res.rows) : res.rows[k].account = a}) =
           (IF Qualifies(a, FollowUpType(q)) THEN 1 ELSE 0)
    /\ \A k \in 1..Len(res.rows) :
         res.rows[k][SpendColumn(q)] =
           CreditUpTo(table, LaterRows(res.rows[k].account, FollowUpType(q)), Len(table))

\* C1 witness: a consulting result with a row for an account that also has a
\* Consulting transaction dated at its d0, which the row's spend leaves out.
C1_Witness ==
  \E res \in ResultsOf("consulting") : \E i \in 1..Len(table) :
    /\ Len(res.rows) = 1 /\ res.rows[1].account = table[i].account
    /\ table[i].type = Consulting /\ table[i].credit > 0
    /\ table[i].date = EarliestCore(table[i].account)
    /\ res.rows[1].total_fme_consulting_spend > 0

\* ------------------------------------------------- revenue concentration
RevconTables == Domain(<<Licenses>>, OneDate, CreditsUpTo(MaxCredit), RevRows)

InitRevcon == InitWith(RevconTables, {FALSE}, {DefaultTopPairs}, {DefaultTopAccounts})

NextRevcon ==
  \/ ResolveSource
  \/ ConsultingWidget
  \/ TrainingWidget
  \/ EsriWidget
  \/ RevconWidget

SpecRevcon == InitRevcon /\ [][NextRevcon]_vars

\* The credit of the whole table.
GrandCredit == CreditUpTo(table, 1..Len(table), Len(table))

\* v <= w for fractions with positive divisors.
FracLeq(v, w) == v[1] * w[2] <= w[1] * v[2]

\* C2: when the grand total of credit is positive, cumulative_percentage is a
\* number in every row of the revenue-concentration result, does not decrease
\* from a row to the next, and is 100 in the last row.
C2_PercentageMonotone ==
  \A res \in ResultsOf("revcon") :
    GrandCredit > 0 =>
      /\ Len(res.rows) > 0
      /\ \A k \in 1..Len(res.rows) : res.rows[k].cumulative_percentage[2] > 0
      /\ \A k \in 1..(Len(res.rows) - 1) :
           FracLeq(res.rows[k].cumulative_percentage, res.rows[k + 1].cumulative_percentage)
      /\ LET last == res.rows[Len(res.rows)].cumulative_percentage
         IN last[1] = 100 * last[2]

\* C2 witness: a result of two accounts with different positive revenues, the
\* first row below 100 percent.
C2_Witness ==
  \E res \in ResultsOf("revcon") :
    /\ Len(res.rows) = 2
    /\ res.rows[1].total_revenue > res.rows[2].total_revenue
    /\ res.rows[2].total_revenue > 0
    /\ res.rows[1].cumulative_percentage[1] < 100 * res.rows[1].cumulative_percentage[2]

RECURSIVE RevenueUpTo(_, _)
\* The sum of total_revenue over the rows 1..k.
RevenueUpTo(rows, k) ==
  IF k = 0 THEN 0 ELSE RevenueUpTo(rows, k - 1) + rows[k].total_revenue

\* C10: the cumulative_revenue of the k-th row of the revenue-concentration
\* result is the sum of total_revenue over the rows 1..k.
C10_RunningSum ==
  \A res \in ResultsOf("revcon") : \A k \in 1..Len(res.rows) :
    res.rows[k].cumulative_revenue = RevenueUpTo(res.rows, k)

\* C9: all the results run_sql has returned for a query, against the one
\* unchanged table, are the same rows in the same order.
C9_SameRowsSameOrder ==
  \A k \in 1..NumWidgets : Cardinality(ResultsOf(QueryOf[k])) <= 1

\* ---------------------------------------------------------- service basket
BasketTables == Domain(<<Esri, Consulting, Licenses, Training>>, OneDate, UnitCredit, BasketRows)

InitBasket == InitWith(BasketTables, {FALSE}, TopPairsChoices, {DefaultTopAccounts})

NextBasket ==
  \/ ResolveSource
  \/ ConsultingWidget
  \/ TrainingWidget
  \/ EsriWidget
  \/ RevconWidget
  \/ AttachWidget
  \/ BasketWidget

SpecBasket == InitBasket /\ [][NextBasket]_vars

\* The accounts with at least one transaction of type t.
AccountsWith(t) == {a \in Accounts : \E i \in 1..Len(table) : table[i].account = a /\ table[i].type = t}

\* C3: the service-basket result holds no pair of a type with itself and no
\* unordered pair of types twice, and the number_of_customers of a pair is the
\* number of accounts that have a transaction of each of its two types.
C3_BasketPairs ==
  \A res \in ResultsOf("basket") :
    /\ \A k \in 1..Len(res.rows) : res.rows[k].service_1 # res.rows[k].service_2
    /\ \A k, l \in 1..Len(res.rows) :
         k # l => {res.rows[k].service_1, res.rows[k].service_2} #
                  {res.rows[l].service_1, res.rows[l].service_2}
    /\ \A k \in 1..Len(res.rows) :
         res.rows[k].number_of_customers =
           Cardinality(AccountsWith(res.rows[k].service_1) \cap AccountsWith(res.rows[k].service_2))

\* C3 witness: a basket result with a pair that two accounts have.
C3_Witness ==
  \E res \in ResultsOf("basket") : \E k \in 1..Len(res.rows) :
    res.rows[k].number_of_customers = 2

\* Frame shown has the columns of frame res and, row by row, its values.
SameFrame(shown, res) ==
  /\ shown.columns = res.columns
  /\ Len(shown.rows) = Len(res.rows)
  /\ \A i \in 1..Len(res.rows) : \A c \in Range(res.columns) : shown.rows[i][c] = res.rows[i][c]

\* Widget k has just passed its dataframe to st.dataframe.
JustRendered(k) == k \in rendered /\ pc = k + 1

\* C5: the table shown under each of the four bar charts holds every row and
\* only the columns of the widget's query result.
C5_FullTableShown ==
  \A k \in {1, 2, 3, 6} :
    JustRendered(k) => SameFrame(df, cache[<<db_path, QueryOf[k]>>])

\* The table under the service-pair chart cut to top_n_pairs rows: six pairs
\* in the result, five rows shown.
C5_Truncated ==
  /\ JustRendered(6)
  /\ Len(cache[<<db_path, "basket">>].rows) > top_n_pairs
  /\ Len(df.rows) = top_n_pairs

\* -------------------------------------------------------- training attach rate
AttachTables == Domain(<<Consulting, Licenses, Subscription, Training>>, OneDate, UnitCredit, AttachRows)

InitAttach == InitWith(AttachTables, {FALSE}, {DefaultTopPairs}, {DefaultTopAccounts})

NextAttach ==
  \/ ResolveSource
  \/ ConsultingWidget
  \/ TrainingWidget
  \/ EsriWidget
  \/ RevconWidget
  \/ AttachWidget

SpecAttach == InitAttach /\ [][NextAttach]_vars

\* The accounts with a Licenses or Subscription transaction.
CoreAccounts == {a \in Accounts : CoreRows(a) # {}}

\* C4: with a core-product account the attach rate is 100 times the number of
\* core-product accounts that have a Training transaction over the number of
\* core-product accounts, a value in [0, 100]; without one the metric shows the
\* no-data dash, not a number.
C4_AttachRate ==
  /\ \A res \in ResultsOf("attach") :
       LET v == res.rows[1].training_attach_rate_percentage
       IN CoreAccounts # {} =>
            /\ v[2] > 0
            /\ v[1] * Cardinality(CoreAccounts) =
                 100 * Cardinality(CoreAccounts \cap AccountsWith(Training)) * v[2]
            /\ 0 <= v[1] /\ v[1] <= 100 * v[2]
  /\ JustRendered(5) =>
       IF CoreAccounts = {} THEN metric = NoData ELSE metric.kind = "value"

\* C4 witness: the metric shows 50.00% for two core-product accounts of which
\* one has a Training transaction.
C4_Witness ==
  /\ JustRendered(5)
  /\ Cardinality(CoreAccounts) = 2
  /\ Cardinality(CoreAccounts \cap AccountsWith(Training)) = 1
  /\ metric = Metric(5000, "%")

\* The attach metric without a core-product account, a Training account present.
C4_NoDataShown ==
  JustRendered(5) /\ CoreAccounts = {} /\ AccountsWith(Training) # {} /\ metric = NoData

\* ------------------------------------------------------------ time to training
TimeToSvcTables == Domain(<<Licenses, Training>>, TtsDates, UnitCredit, TtsRows)

InitTimeToSvc == InitWith(TimeToSvcTables, {FALSE}, {DefaultTopPairs}, {DefaultTopAccounts})

NextTimeToSvc ==
  \/ ResolveSource
  \/ ConsultingWidget
  \/ TrainingWidget
  \/ EsriWidget
  \/ RevconWidget
  \/ AttachWidget
  \/ BasketWidget
  \/ TimeToSvcWidget

SpecTimeToSvc == InitTimeToSvc /\ [][NextTimeToSvc]_vars

\* The accounts with a Training transaction dated strictly after their d0.
TrainedLater == {a \in Accounts : Qualifies(a, Training)}

\* The days from d0 to the earliest Training transaction after d0.
DaysToTraining(a) ==
  (CHOOSE d \in {table[i].date : i \in LaterRows(a, Training)} :
     \A i \in LaterRows(a, Training) : d <= table[i].date) - EarliestCore(a)

RECURSIVE DaysTotal(_)
DaysTotal(S) ==
  IF S = {} THEN 0
  ELSE LET a == CHOOSE x \in S : TRUE IN DaysToTraining(a) + DaysTotal(S \ {a})

\* C8: time-to-training is the mean of DaysToTraining over exactly the accounts
\* of TrainedLater; with no such account the result is undefined and the metric
\* shows the no-data dash, not a number.
C8_AvgDays ==
  /\ \A res \in ResultsOf("timetosvc") :
       LET v == res.rows[1].avg_days_to_training
       IN IF TrainedLater = {} THEN v = NaN
          ELSE /\ v[2] > 0
               /\ v[1] * Cardinality(TrainedLater) = v[2] * DaysTotal(TrainedLater)
  /\ JustRendered(7) =>
       IF TrainedLater = {} THEN metric = NoData ELSE metric.kind = "value"

\* C8 witness: two accounts of 1 and 2 days to their first later Training
\* transaction, shown as 1.50.
C8_Witness ==
  /\ JustRendered(7)
  /\ Cardinality(TrainedLater) = 2
  /\ DaysTotal(TrainedLater) = 3
  /\ metric = Metric(150, "")

\* The days metric with a core-product account and a Training transaction that
\* is not after d0.
C8_NoDataShown ==
  /\ JustRendered(7) /\ TrainedLater = {} /\ CoreAccounts # {}
  /\ \E a \in CoreAccounts : a \in AccountsWith(Training)
  /\ metric = NoData

\* ------------------------------------------------------------ the script run
\* C6: when the query of widget i fails, the failure is shown and each of the
\* other seven widgets is still rendered in that run.
C6_OthersRendered ==
  (status = "failed" /\ fileState = "ok") =>
    /\ "exception" \in msgs
    /\ \A j \in (1..NumWidgets) \ {pc} : j \in rendered

\* C7 as stated: without a supplied, existing and valid database the run stops
\* with a message before the first run_sql call, and nothing is executed or
\* rendered.
C7_StopsBeforeRunSql ==
  fileState # "ok" =>
    /\ calls = {} /\ executed = {} /\ rendered = {}
    /\ status \in {"running", "stopped"}
    /\ status = "stopped" => msgs \cap {"info_begin", "error_not_found"} # {}

\* C7 amended: no query is executed and no chart or table is rendered without
\* a database that can be opened.  With no path or a path to no file the run
\* stops with its message before the first run_sql call; with a file or an
\* upload that is no database the first run_sql call is made and fails opening
\* the connection, after the success message and the first subheader, and the
\* run ends there.
C7_NoQueryWithoutValidSource ==
  fileState # "ok" =>
    /\ executed = {} /\ rendered = {} /\ conns = {} /\ DOMAIN cache = {}
    /\ IF uploaded \/ (db_path_input # "" /\ fileState = "notdb")
       THEN /\ calls \subseteq {"consulting"} /\ headed \subseteq {1}
            /\ status \in {"running", "failed"}
            /\ status = "failed" =>
                 calls = {"consulting"} /\ msgs = {"success_using", "exception"}
            /\ pc = 1 /\ status = "running" => calls = {}
       ELSE /\ calls = {} /\ headed = {}
            /\ status \in {"running", "stopped"}
            /\ status = "stopped" =>
                 msgs = IF db_path_input = "" THEN {"info_begin"} ELSE {"error_not_found"}
            /\ pc = 0

\* C7 witness: an upload that is no database, the first run_sql call failed.
C7_Witness ==
  /\ uploaded /\ fileState = "notdb"
  /\ status = "failed" /\ calls = {"consulting"} /\ executed = {}

\* A path to no file: the run stopped before any run_sql call.
C7_StoppedNotFound ==
  /\ ~uploaded /\ db_path_input # "" /\ fileState = "missing"
  /\ status = "stopped" /\ calls = {} /\ msgs = {"error_not_found"}

====
